---- MODULE Spec2Model ----
(***************************************************************************)
(* State-machine model of the FHEAMM contract (contracts/FHEAMM.sol).      *)
(*                                                                         *)
(* The encrypted-integer library is an external dependency of the          *)
(* contract.  It is modelled by what the contract relies on: a handle is   *)
(* an opaque reference to a ciphertext; every handle the contract writes   *)
(* to storage is a fresh one; add and sub are unsigned arithmetic that     *)
(* wraps at the width of the type; an uninitialised (zero) handle used as  *)
(* an operand stands for enc(0); and the access-control list keeps, per    *)
(* handle, the set of parties allowed to decrypt it.  Handles that are     *)
(* never stored (the results of intermediate operations) only ever receive *)
(* a transient allowance for the contract, which ends with the             *)
(* transaction, so the model keeps their plaintext only.                   *)
(*                                                                         *)
(* euint32 is modelled UintBits wide: the arithmetic is the contract's,    *)
(* the width is scaled down so that wrap-around is within reach.           *)
(*                                                                         *)
(* The modelled surface is submitPosition, submitVolatility,               *)
(* applyParameters and the read queries.  The governance identity is the   *)
(* deployer for the whole run.                                             *)
(*                                                                         *)
(* A call that reverts and a read query leave the contract where it was:   *)
(* they are observed in `last`, and exploration goes on from the state     *)
(* they were made in.                                                      *)
(***************************************************************************)
EXTENDS Integers, Sequences, FiniteSets, TLC

\* ------------------------------------------------------------------ bounds

\* Successful state-changing calls explored in every order and by every
\* caller (the length of the audit trail).
MaxActions == 3

\* Successful state-changing calls before a rejected call or a read query is
\* observed.
MaxCalls == 2

\* Width, in bits, of the model's encrypted unsigned integer.
UintBits == 8

\* The number of values of the encrypted unsigned integer (2^32 for euint32).
UintMod == 2 ^ UintBits

\* --------------------------------------------------------------- constants

\* FHE.asEuint32(50): the volatility threshold.
THRESHOLD == 50

\* FHE.asEuint32(1): the step added to both suggestions.
DELTA == 1

\* ---------------------------------------------------------------- parties

\* address(this), the grantee of FHE.allowThis.
This == 0

\* msg.sender of the constructor: Ownable(msg.sender).
Deployer == 1

\* The accounts whose calls are explored in every order.
Ids == 1 .. 3

\* Further accounts, each sending one call in the long runs below.
Crowd == 4 .. (3 + UintMod \div 2)

\* Every account.
Accounts == Ids \cup Crowd

\* bytes32(0): the value of an euint32 storage slot never written.
NullHandle == 0

\* ------------------------------------------------------------------ inputs

\* Plaintext triples (liquidity, priceLower, priceUpper) clients encrypt.
PositionInputs ==
    { <<10, 100, 200>>, <<15, 90, 210>>, <<UintMod - 1, 0, UintMod \div 2>> }

\* Plaintext volatilities clients encrypt.
VolatilityInputs == {49, 50, 60}

\* Clear (feeRatio, tickSpacing) pairs governance applies.
ParameterInputs == { <<5, 10>>, <<0, UintMod - 1>> }

\* Block timestamps a transaction may be mined at.
Timestamps == 0 .. 1

\* ------------------------------------------------------------------- state

VARIABLES
    _owner,                 \* Ownable._owner
    _positions,             \* mapping(address => Position), the written keys
    _aggLiquidity,          \* euint32 handle
    _sumPriceLower,         \* euint32 handle
    _sumPriceUpper,         \* euint32 handle
    _numPositions,          \* euint32 handle
    _twoTimesNumPositions,  \* euint32 handle
    _suggestedFeeRatio,     \* euint32 handle
    _suggestedTickSpacing,  \* euint32 handle
    appliedFeeRatio,        \* uint32
    appliedTickSpacing,     \* uint32
    _actionHashes,          \* bytes32[]
    store,                  \* handle -> [clear, allowed, by]: ciphertext and ACL
    events,                 \* the notifications emitted so far
    now,                    \* block.timestamp of the latest transaction
    submitted,              \* per account, the plaintext triple it last sent
    last,                   \* the latest call: [op, sender, status, arg, pre]
    \* the frontend hook useFHEAMM and what the page passes to it
    chainId,                \* parameters.chainId (0: undefined)
    ethersSigner,           \* parameters.ethersSigner, by address (0: undefined)
    instance,               \* parameters.instance is defined
    busyRef,                \* busyRef.current, mirrored by the busy state
    handles,                \* the handles state: << >> or six handles
    clears,                 \* the clears state: << >> or six plaintexts
    applied,                \* the applied and owner states: << >> or a triple
    running,                \* the runs in flight: [name, pc, this..., arg, handles]
    invoked,                \* the callback the latest step invoked, or "none"
    sent,                   \* what the latest step asked of the outside, or << >>
    ncalls                  \* the callbacks invoked so far

contractVars ==
    << _owner, _positions, _aggLiquidity, _sumPriceLower, _sumPriceUpper,
       _numPositions, _twoTimesNumPositions, _suggestedFeeRatio,
       _suggestedTickSpacing, appliedFeeRatio, appliedTickSpacing,
       _actionHashes, store, events >>

hookVars ==
    << chainId, ethersSigner, instance, busyRef, handles, clears, applied,
       running, invoked, sent, ncalls >>

vars == << contractVars, now, submitted, last, hookVars >>

\* ----------------------------------------------- encrypted-integer domain

\* A fresh handle for plaintext v, produced in a transaction sent by c.
\* Its handle is the new length of the store.
Alloc(s, v, c) == Append(s, [clear |-> v, allowed |-> {}, by |-> c])

\* FHE.allowThis / FHE.allow for every party of who.
Allow(s, h, who) == [s EXCEPT ![h].allowed = @ \cup who]

\* The plaintext under a handle; an uninitialised operand is enc(0).
Clear(s, h) == IF h = NullHandle THEN 0 ELSE s[h].clear

\* FHE.add on euint32.
FHE_add(a, b) == (a + b) % UintMod

\* Mutant: a subtraction that would underflow yields 0.
FHE_sub_Saturates(a, b) == IF a >= b THEN a - b ELSE 0

\* FHE.sub on euint32.
FHE_sub(a, b) == (a + UintMod - b) % UintMod

\* FHE.ge on euint32.
FHE_ge(a, b) == a >= b

\* FHE.select.
FHE_select(c, a, b) == IF c THEN a ELSE b

\* What an authorised party reads when it decrypts handle h now.
Decrypt(h) == Clear(store, h)

\* The parties allowed to decrypt handle h now.
Allowed(h) == IF h = NullHandle THEN {} ELSE store[h].allowed

\* ------------------------------------------------------------ constructor

\* The value of _positions[a] for a key never written.
EmptyPosition ==
    [liquidity |-> NullHandle, priceLower |-> NullHandle,
     priceUpper |-> NullHandle, exists |-> FALSE]

\* _positions[a]
Position(a) ==
    IF a \in DOMAIN _positions THEN _positions[a] ELSE EmptyPosition

\* Mutant: the suggestions start at enc(1).
InitialSuggestion_One(s, c) == Allow(Alloc(s, 1, c), Len(s) + 1, {This})

\* The store after `slot = FHE.asEuint32(0); FHE.allowThis(slot)`.
InitialSuggestion(s, c) == Allow(Alloc(s, 0, c), Len(s) + 1, {This})

\* What an observer holding every grant reads just before a call by c: the
\* three running sums, whether c has a position, and c's stored triple.
Before(c) ==
    [sums   |-> << Decrypt(_aggLiquidity), Decrypt(_sumPriceLower),
                   Decrypt(_sumPriceUpper) >>,
     exists |-> Position(c).exists,
     stored |-> << Decrypt(Position(c).liquidity),
                   Decrypt(Position(c).priceLower),
                   Decrypt(Position(c).priceUpper) >>]

Init ==
    /\ _owner = Deployer
    /\ _positions = << >>
    /\ _aggLiquidity = NullHandle
    /\ _sumPriceLower = NullHandle
    /\ _sumPriceUpper = NullHandle
    /\ _numPositions = NullHandle
    /\ _twoTimesNumPositions = NullHandle
    /\ store = InitialSuggestion(InitialSuggestion(<< >>, Deployer), Deployer)
    /\ _suggestedFeeRatio = 1
    /\ _suggestedTickSpacing = 2
    /\ appliedFeeRatio = 0
    /\ appliedTickSpacing = 0
    /\ _actionHashes = << >>
    /\ events = << >>
    /\ now = 0
    /\ submitted = << >>
    /\ last = [op |-> "constructor", sender |-> Deployer, status |-> "ok",
               arg |-> << >>, pre |-> Before(Deployer)]
    \* the hook is mounted before the wallet has connected
    /\ chainId = 0
    /\ ethersSigner = 0
    /\ instance = FALSE
    /\ busyRef = FALSE
    /\ handles = << >>
    /\ clears = << >>
    /\ applied = << >>
    /\ running = {}
    /\ invoked = "none"
    /\ sent = << >>
    /\ ncalls = 0

\* ------------------------------------------------------------ audit trail

\* keccak256(abi.encodePacked(action, msg.sender, block.timestamp)): the
\* digest is modelled as injective in its three inputs.
Digest(action, sender, timestamp) == << action, sender, timestamp >>

\* Mutant: the entry is pushed twice.
_pushAction_Twice(action, sender, timestamp) ==
    _actionHashes' =
        Append(Append(_actionHashes, Digest(action, sender, timestamp)),
               Digest(action, sender, timestamp))

\* Mutant: the entry is put in front of the older ones.
_pushAction_Prepends(action, sender, timestamp) ==
    _actionHashes' = << Digest(action, sender, timestamp) >> \o _actionHashes

\* Mutant: the plaintext of the suggested fee ratio enters the digest.
_pushAction_Leaks(action, sender, timestamp) ==
    _actionHashes' =
        Append(_actionHashes,
               Digest(action, sender,
                      timestamp + Clear(store, _suggestedFeeRatio)))

\* _pushAction(action): one digest appended to the audit trail.
_pushAction(action, sender, timestamp) ==
    _actionHashes' = Append(_actionHashes, Digest(action, sender, timestamp))

\* A transaction is mined in a block whose timestamp is not before the
\* previous one's.
Mined(t) ==
    /\ t \in Timestamps
    /\ t >= now
    /\ now' = t

\* ---------------------------------------------------------- submitPosition

\* Mutant: the owner is not authorised.
Grantees_NoOwner(c) == {This, c}

\* Mutant: every account with a position is authorised as well.
Grantees_AllHolders(c) == {This, c, _owner} \cup DOMAIN _positions

\* The three parties every mutation authorises: contract, sender, owner.
Grantees(c) == {This, c, _owner}

\* Mutant: the previous contribution is never removed.
WithoutPrevious_Keeps(exists, sum, previous) == sum

\* A running sum with the sender's previous contribution removed, when it
\* had one (the `if (p.exists)` branch).
WithoutPrevious(exists, sum, previous) ==
    IF exists THEN FHE_sub(sum, previous) ELSE sum

\* Mutant: the running sum is overwritten by the new contribution.
ReplacedSum_Overwrites(exists, sum, previous, new) == new

\* A running sum after the call: previous contribution out, new one in.
ReplacedSum(exists, sum, previous, new) ==
    FHE_add(WithoutPrevious(exists, sum, previous), new)

\* Mutant: both counters are incremented by 1.
IncrementedCounter_AddsOne(s, exists, counter, k, c) ==
    IF exists THEN [store |-> s, handle |-> counter]
    ELSE [store  |-> Allow(Alloc(s, FHE_add(Clear(s, counter), 1), c),
                           Len(s) + 1, {This, c, _owner}),
          handle |-> Len(s) + 1]

\* Mutant: the counter is incremented on every submission.
IncrementedCounter_Always(s, exists, counter, k, c) ==
    [store  |-> Allow(Alloc(s, FHE_add(Clear(s, counter), k), c),
                      Len(s) + 1, {This, c, _owner}),
     handle |-> Len(s) + 1]

\* The `else` branch of `if (p.exists)`, for one counter: the store and the
\* counter's handle after `counter = FHE.add(counter, FHE.asEuint32(k))` and
\* its three grants on a first submission; both untouched on a resubmission.
IncrementedCounter(s, exists, counter, k, c) ==
    IF exists THEN [store |-> s, handle |-> counter]
    ELSE [store  |-> Allow(Alloc(s, FHE_add(Clear(s, counter), k), c),
                           Len(s) + 1, Grantees(c)),
          handle |-> Len(s) + 1]

\* The store after `sum = FHE.add(sum, value)` (sum already reduced by the
\* previous contribution) and the three grants on the new handle.
SumStore(s, value, c) == Allow(Alloc(s, value, c), Len(s) + 1, Grantees(c))

\* Mutant: the grants on priceUpper are forgotten.
PositionStore_ForgetsUpper(s, liq, pl, pu, c) ==
    Allow(Allow(s, liq, {This, c, _owner}), pl, {This, c, _owner})

\* Mutant: the sender is left out of the grants on its own position.
PositionStore_ForgetsSender(s, liq, pl, pu, c) ==
    Allow(Allow(Allow(s, liq, {This, _owner}), pl, {This, _owner}),
          pu, {This, _owner})

\* The store after the three grants on each field of the stored position.
PositionStore(s, liq, pl, pu, c) ==
    Allow(Allow(Allow(s, liq, Grantees(c)), pl, Grantees(c)), pu, Grantees(c))

\* Mutant: the position is written to every slot in use.
WithPosition_Overwrites(positions, c, stored) ==
    [a \in DOMAIN positions \cup {c} |-> stored]

\* Mutant: a resubmission clears the exists flag.
WithPosition_Toggles(positions, c, stored) ==
    [a \in DOMAIN positions \cup {c} |->
        IF a = c
        THEN [stored EXCEPT !.exists = c \notin DOMAIN positions]
        ELSE positions[a]]

\* The mapping after `Position storage p = _positions[msg.sender]` has been
\* assigned its four fields.
WithPosition(positions, c, stored) ==
    [a \in DOMAIN positions \cup {c} |->
        IF a = c THEN stored ELSE positions[a]]

\* submitPosition(encLiquidity, encPriceLower, encPriceUpper, inputProof)
\* sent by c in a block stamped t, the proof certifying plaintexts l, pl, pu.
SubmitPosition(c, l, pl, pu, t) ==
    LET p     == Position(c)
        \* FHE.fromExternal x 3
        sIn   == Alloc(Alloc(Alloc(store, l, c), pl, c), pu, c)
        liq   == Len(store) + 1
        plH   == Len(store) + 2
        puH   == Len(store) + 3
        \* counters (first submission only)
        num   == IncrementedCounter(sIn, p.exists, _numPositions, 1, c)
        two   == IncrementedCounter(num.store, p.exists,
                                    _twoTimesNumPositions, 2, c)
        \* running sums
        sAgg  == SumStore(two.store,
                     ReplacedSum(p.exists, Clear(store, _aggLiquidity),
                                 Clear(store, p.liquidity), l), c)
        aggH  == Len(two.store) + 1
        sLow  == SumStore(sAgg,
                     ReplacedSum(p.exists, Clear(store, _sumPriceLower),
                                 Clear(store, p.priceLower), pl), c)
        lowH  == Len(sAgg) + 1
        sUp   == SumStore(sLow,
                     ReplacedSum(p.exists, Clear(store, _sumPriceUpper),
                                 Clear(store, p.priceUpper), pu), c)
        upH   == Len(sLow) + 1
        stored == [liquidity |-> liq, priceLower |-> plH,
                   priceUpper |-> puH, exists |-> TRUE]
    IN  /\ Mined(t)
        /\ _numPositions' = num.handle
        /\ _twoTimesNumPositions' = two.handle
        /\ _aggLiquidity' = aggH
        /\ _sumPriceLower' = lowH
        /\ _sumPriceUpper' = upH
        /\ _positions' = WithPosition(_positions, c, stored)
        /\ store' = PositionStore(sUp, liq, plH, puH, c)
        /\ _pushAction("SUBMIT_POSITION", c, t)
        /\ events' = Append(events, [name |-> "PositionSubmitted", user |-> c])
        /\ submitted' = [a \in DOMAIN submitted \cup {c} |->
                             IF a = c THEN << l, pl, pu >> ELSE submitted[a]]
        /\ last' = [op |-> "submitPosition", sender |-> c, status |-> "ok",
                    arg |-> << l, pl, pu >>, pre |-> Before(c)]
        /\ UNCHANGED << _owner, _suggestedFeeRatio, _suggestedTickSpacing,
                        appliedFeeRatio, appliedTickSpacing >>

\* -------------------------------------------------------- submitVolatility

\* Mutant: the comparison is strict (gt instead of ge).
Suggested_Strict(current, v) ==
    FHE_select(v > THRESHOLD, FHE_add(current, DELTA), current)

\* Mutant: the step is subtracted instead of added.
Suggested_Subtracts(current, v) ==
    FHE_select(FHE_ge(v, THRESHOLD), FHE_sub(current, DELTA), current)

\* fee' = ge ? fee + delta : fee, on plaintexts.
Suggested(current, v) ==
    FHE_select(FHE_ge(v, THRESHOLD), FHE_add(current, DELTA), current)

\* Mutant: a clear-domain `if` on the volatility; below the threshold the
\* suggestions keep their handles and no grant is made.
SubmitVolatility_Branches(c, v, t) ==
    LET sFee  == Alloc(store, FHE_add(Clear(store, _suggestedFeeRatio), DELTA), c)
        feeH  == Len(store) + 1
        sTick == Alloc(sFee, FHE_add(Clear(store, _suggestedTickSpacing), DELTA), c)
        tickH == Len(store) + 2
    IN  /\ Mined(t)
        /\ IF v >= THRESHOLD
           THEN /\ _suggestedFeeRatio' = feeH
                /\ _suggestedTickSpacing' = tickH
                /\ store' = Allow(Allow(sTick, feeH, {This, c, _owner}),
                                  tickH, {This, c, _owner})
           ELSE UNCHANGED << _suggestedFeeRatio, _suggestedTickSpacing, store >>
        /\ _pushAction("SUBMIT_VOLATILITY", c, t)
        /\ events' = Append(events, [name |-> "VolatilitySubmitted", user |-> c])
        /\ last' = [op |-> "submitVolatility", sender |-> c, status |-> "ok",
                    arg |-> << v >>, pre |-> Before(c)]
        /\ UNCHANGED << _owner, _positions, _aggLiquidity, _sumPriceLower,
                        _sumPriceUpper, _numPositions, _twoTimesNumPositions,
                        appliedFeeRatio, appliedTickSpacing, submitted >>

\* submitVolatility(encVolatility, inputProof) sent by c in a block stamped
\* t, the proof certifying plaintext v.
SubmitVolatility(c, v, t) ==
    LET sFee  == Alloc(store, Suggested(Clear(store, _suggestedFeeRatio), v), c)
        feeH  == Len(store) + 1
        sTick == Alloc(sFee, Suggested(Clear(store, _suggestedTickSpacing), v), c)
        tickH == Len(store) + 2
    IN  /\ Mined(t)
        /\ _suggestedFeeRatio' = feeH
        /\ _suggestedTickSpacing' = tickH
        /\ store' = Allow(Allow(sTick, feeH, Grantees(c)), tickH, Grantees(c))
        /\ _pushAction("SUBMIT_VOLATILITY", c, t)
        /\ events' = Append(events, [name |-> "VolatilitySubmitted", user |-> c])
        /\ last' = [op |-> "submitVolatility", sender |-> c, status |-> "ok",
                    arg |-> << v >>, pre |-> Before(c)]
        /\ UNCHANGED << _owner, _positions, _aggLiquidity, _sumPriceLower,
                        _sumPriceUpper, _numPositions, _twoTimesNumPositions,
                        appliedFeeRatio, appliedTickSpacing, submitted >>

\* --------------------------------------------------------- applyParameters

\* Mutant: the modifier lets every caller through.
onlyOwner_Anyone(c) == TRUE

\* Mutant: the modifier also wants a suggestion to have been raised.
onlyOwner_WhenSuggested(c) ==
    c = _owner /\ Clear(store, _suggestedFeeRatio) > 0

\* The onlyOwner modifier (Ownable._checkOwner): msg.sender is the owner.
onlyOwner(c) == c = _owner

\* Mutant: the notification carries the parameters applied before the call.
ApplyParameters_EmitsOld(c, f, k, t) ==
    /\ onlyOwner(c)
    /\ Mined(t)
    /\ appliedFeeRatio' = f
    /\ appliedTickSpacing' = k
    /\ _pushAction("APPLY_PARAMETERS", c, t)
    /\ events' = Append(events, [name        |-> "ParametersApplied",
                                 feeRatio    |-> appliedFeeRatio,
                                 tickSpacing |-> appliedTickSpacing])
    /\ last' = [op |-> "applyParameters", sender |-> c, status |-> "ok",
                arg |-> << f, k >>, pre |-> Before(c)]
    /\ UNCHANGED << _owner, _positions, _aggLiquidity, _sumPriceLower,
                    _sumPriceUpper, _numPositions, _twoTimesNumPositions,
                    _suggestedFeeRatio, _suggestedTickSpacing, store,
                    submitted >>

\* Mutant: applying parameters leaves no entry in the audit trail.
ApplyParameters_Unlogged(c, f, k, t) ==
    /\ onlyOwner(c)
    /\ Mined(t)
    /\ appliedFeeRatio' = f
    /\ appliedTickSpacing' = k
    /\ events' = Append(events, [name |-> "ParametersApplied",
                                 feeRatio |-> f, tickSpacing |-> k])
    /\ last' = [op |-> "applyParameters", sender |-> c, status |-> "ok",
                arg |-> << f, k >>, pre |-> Before(c)]
    /\ UNCHANGED << _owner, _positions, _aggLiquidity, _sumPriceLower,
                    _sumPriceUpper, _numPositions, _twoTimesNumPositions,
                    _suggestedFeeRatio, _suggestedTickSpacing, store,
                    submitted, _actionHashes >>

\* Mutant: applying parameters also resets both suggestions.
ApplyParameters_ClearsSuggestions(c, f, k, t) ==
    /\ onlyOwner(c)
    /\ Mined(t)
    /\ appliedFeeRatio' = f
    /\ appliedTickSpacing' = k
    /\ _suggestedFeeRatio' = NullHandle
    /\ _suggestedTickSpacing' = NullHandle
    /\ _pushAction("APPLY_PARAMETERS", c, t)
    /\ events' = Append(events, [name |-> "ParametersApplied",
                                 feeRatio |-> f, tickSpacing |-> k])
    /\ last' = [op |-> "applyParameters", sender |-> c, status |-> "ok",
                arg |-> << f, k >>, pre |-> Before(c)]
    /\ UNCHANGED << _owner, _positions, _aggLiquidity, _sumPriceLower,
                    _sumPriceUpper, _numPositions, _twoTimesNumPositions,
                    store, submitted >>

\* applyParameters(feeRatioClear, tickSpacingClear) sent by the owner.
ApplyParameters(c, f, k, t) ==
    /\ onlyOwner(c)
    /\ Mined(t)
    /\ appliedFeeRatio' = f
    /\ appliedTickSpacing' = k
    /\ _pushAction("APPLY_PARAMETERS", c, t)
    /\ events' = Append(events, [name |-> "ParametersApplied",
                                 feeRatio |-> f, tickSpacing |-> k])
    /\ last' = [op |-> "applyParameters", sender |-> c, status |-> "ok",
                arg |-> << f, k >>, pre |-> Before(c)]
    /\ UNCHANGED << _owner, _positions, _aggLiquidity, _sumPriceLower,
                    _sumPriceUpper, _numPositions, _twoTimesNumPositions,
                    _suggestedFeeRatio, _suggestedTickSpacing, store,
                    submitted >>

\* ------------------------------------------------------------ read queries

\* getAggregates(): the four aggregate handles.
getAggregates ==
    << _aggLiquidity, _sumPriceLower, _sumPriceUpper, _twoTimesNumPositions >>

\* getSuggestions(): the two suggestion handles.
getSuggestions == << _suggestedFeeRatio, _suggestedTickSpacing >>

\* Mutant: the position of the latest sender is returned to every caller.
getMyPosition_Latest(c) == Position(last.sender)

\* getMyPosition() called by c: c's stored handles and flag.
getMyPosition(c) == Position(c)

\* getActionsLength()
getActionsLength == Len(_actionHashes)

\* Mutant: the bounds check is off by one.
getActionAt_OffByOne(index) ==
    IF index <= Len(_actionHashes)
    THEN [status |-> "ok",
          value  |-> IF index < Len(_actionHashes)
                     THEN _actionHashes[index + 1] ELSE << >>]
    ELSE [status |-> "IndexOutOfRange", value |-> << >>]

\* getActionAt(index): `_actionHashes[index]`, a checked array access with a
\* zero-based index.
getActionAt(index) ==
    IF index < Len(_actionHashes)
    THEN [status |-> "ok", value |-> _actionHashes[index + 1]]
    ELSE [status |-> "IndexOutOfRange", value |-> << >>]

\* A call that changes nothing in the contract: a read query, or a call that
\* reverted with the given status.
Observed(op, c, status, arg) ==
    /\ last' = [op |-> op, sender |-> c, status |-> status, arg |-> arg,
                pre |-> Before(c)]
    /\ UNCHANGED << _owner, _positions, _aggLiquidity, _sumPriceLower,
                    _sumPriceUpper, _numPositions, _twoTimesNumPositions,
                    _suggestedFeeRatio, _suggestedTickSpacing, appliedFeeRatio,
                    appliedTickSpacing, _actionHashes, events, now, submitted >>

\* Mutant: the aggregates are handed only to a caller allowed to decrypt
\* the liquidity sum.
GetAggregates_Gated(c) ==
    /\ c \in Allowed(_aggLiquidity)
    /\ Observed("getAggregates", c, "ok", << >>)
    /\ UNCHANGED store

\* The read queries, called by c.
GetAggregates(c) ==
    Observed("getAggregates", c, "ok", << >>) /\ UNCHANGED store

GetSuggestions(c) ==
    Observed("getSuggestions", c, "ok", << >>) /\ UNCHANGED store

GetMyPosition(c) ==
    Observed("getMyPosition", c, "ok", << >>) /\ UNCHANGED store

GetActionsLength(c) ==
    Observed("getActionsLength", c, "ok", << >>) /\ UNCHANGED store

GetActionAt(c, index) ==
    Observed("getActionAt", c, getActionAt(index).status, << index >>)
        /\ UNCHANGED store

\* ---------------------------------------------------------- reverted calls

\* Mutant: what was written before the revert survives it.
Reverted_KeepsPartial(before, partial) == partial

\* A revert undoes every write of the transaction.
Reverted(before, partial) == before

\* applyParameters sent by an account the onlyOwner modifier turns away.
ApplyParametersReverts(c, f, k) ==
    /\ ~ onlyOwner(c)
    /\ Observed("applyParameters", c, "Unauthorized", << f, k >>)
    /\ UNCHANGED store

RECURSIVE Imported(_, _, _, _)
\* The store after FHE.fromExternal has imported the first n of the
\* plaintexts in.
Imported(s, in, n, c) ==
    IF n = 0 THEN s ELSE Alloc(Imported(s, in, n - 1, c), in[n], c)

\* submitPosition sent by c with a proof that FHE.fromExternal rejects at
\* the k-th of the three inputs, the ones before it certifying in.
SubmitPositionRejected(c, in, k) ==
    /\ Observed("submitPosition", c, "InvalidCiphertextProof", << k >>)
    /\ store' = Reverted(store, Imported(store, in, k - 1, c))

\* submitVolatility sent by c with a proof that FHE.fromExternal rejects.
SubmitVolatilityRejected(c) ==
    /\ Observed("submitVolatility", c, "InvalidCiphertextProof", << 1 >>)
    /\ store' = Reverted(store, store)

\* ------------------------------------------------------------ specification

\* Any successful call by any explored account, while the audit trail is
\* shorter than MaxActions.
Explore ==
    /\ Len(_actionHashes) < MaxActions
    /\ \/ \E c \in Ids, in \in PositionInputs, t \in Timestamps :
              SubmitPosition(c, in[1], in[2], in[3], t)
       \/ \E c \in Ids, v \in VolatilityInputs, t \in Timestamps :
              SubmitVolatility(c, v, t)
       \/ \E c \in Ids, in \in ParameterInputs, t \in Timestamps :
              ApplyParameters(c, in[1], in[2], t)
    /\ UNCHANGED hookVars

\* The k-th account of the crowd.
CrowdMember(k) == 3 + k

\* A long run: one crowd account after the other submits its first position,
\* until twoTimesNumPositions has wrapped around.
CrowdRun ==
    /\ Len(_actionHashes) < Cardinality(Crowd)
    /\ \A i \in DOMAIN _actionHashes :
           _actionHashes[i] = Digest("SUBMIT_POSITION", CrowdMember(i), 0)
    /\ SubmitPosition(CrowdMember(Len(_actionHashes) + 1), 1, 2, 3, 0)
    /\ UNCHANGED hookVars

\* A long run: one crowd account submits a qualifying volatility again and
\* again, until the suggestions have wrapped around.
VolatilityRun ==
    /\ Len(_actionHashes) < UintMod
    /\ \A i \in DOMAIN _actionHashes :
           _actionHashes[i] = Digest("SUBMIT_VOLATILITY", CrowdMember(1), 0)
    /\ Decrypt(_suggestedFeeRatio) = Len(_actionHashes)
    /\ SubmitVolatility(CrowdMember(1), THRESHOLD, 0)
    /\ UNCHANGED hookVars

\* The end-to-end scenario after its first call: an account has submitted
\* the position (10, 100, 200).
ScenarioAfterFirst ==
    /\ Len(_actionHashes) = 1
    /\ last.op = "submitPosition"
    /\ last.arg = << 10, 100, 200 >>

\* After its second call: the same account has resubmitted (15, 90, 210).
ScenarioAfterSecond ==
    /\ Len(_actionHashes) = 2
    /\ events[2] = events[1]
    /\ last.op = "submitPosition"
    /\ last.arg = << 15, 90, 210 >>
    /\ last.pre.exists
    /\ last.pre.stored = << 10, 100, 200 >>

\* After its third call: a volatility of 60 has followed the two
\* submissions.
ScenarioAfterThird ==
    /\ Len(_actionHashes) = 3
    /\ events[1].name = "PositionSubmitted"
    /\ events[2] = events[1]
    /\ submitted[events[1].user] = << 15, 90, 210 >>
    /\ last.op = "submitVolatility"
    /\ last.arg = << 60 >>

\* The last step of the end-to-end scenario: the owner applies (5, 10).
ScenarioRun ==
    /\ ScenarioAfterThird
    /\ \E t \in Timestamps : ApplyParameters(_owner, 5, 10, t)
    /\ UNCHANGED hookVars

Next == Explore \/ CrowdRun \/ VolatilityRun \/ ScenarioRun

Spec == Init /\ [][Next]_vars

\* The latest call was a successful state-changing one (or the constructor):
\* `last` describes the transaction that produced the current state.
Settled ==
    /\ last.status = "ok"
    /\ last.op \in {"constructor", "submitPosition", "submitVolatility",
                    "applyParameters"}

\* Any successful call by any explored account, while the audit trail is
\* shorter than MaxCalls.
Mutate ==
    /\ Settled
    /\ Len(_actionHashes) < MaxCalls
    /\ \/ \E c \in Ids, in \in PositionInputs, t \in Timestamps :
              SubmitPosition(c, in[1], in[2], in[3], t)
       \/ \E c \in Ids, v \in VolatilityInputs, t \in Timestamps :
              SubmitVolatility(c, v, t)
       \/ \E c \in Ids, in \in ParameterInputs, t \in Timestamps :
              ApplyParameters(c, in[1], in[2], t)
    /\ UNCHANGED hookVars

\* Any call that reverts.
Revert ==
    /\ Settled
    /\ \/ \E c \in Ids, in \in ParameterInputs :
              ApplyParametersReverts(c, in[1], in[2])
       \/ \E c \in Ids, in \in PositionInputs, k \in 1 .. 3 :
              SubmitPositionRejected(c, in, k)
       \/ \E c \in Ids : SubmitVolatilityRejected(c)
       \/ \E c \in Ids, index \in 0 .. MaxCalls + 1 :
              getActionAt(index).status # "ok" /\ GetActionAt(c, index)
    /\ UNCHANGED hookVars

\* Any read query that returns.
Query ==
    /\ Settled
    /\ \/ \E c \in Ids : GetAggregates(c)
       \/ \E c \in Ids : GetSuggestions(c)
       \/ \E c \in Ids : GetMyPosition(c)
       \/ \E c \in Ids : GetActionsLength(c)
       \/ \E c \in Ids, index \in 0 .. MaxCalls + 1 :
              getActionAt(index).status = "ok" /\ GetActionAt(c, index)
    /\ UNCHANGED hookVars

CallNext == Mutate \/ Revert \/ Query

CallSpec == Init /\ [][CallNext]_vars

\* =========================================================== frontend hook
\*
\* useFHEAMM (src/frontend/hooks/useFHEAMM.tsx) as the page mounts it
\* (src/frontend/app/page.tsx). JavaScript runs one callback or promise
\* continuation at a time: every action below is one of them, run to its
\* next await. The component has re-rendered and run its effects before the
\* next continuation resumes, so ammRef.current, sameChain.current and
\* sameSigner.current follow chainId and ethersSigner.

\* Callbacks invoked on the hook before the exploration stops.
MaxHookCalls == 3

\* The chains the wallet connects to, each with a deployment; chainId is
\* undefined (0) until the wallet connects.
Chains == 1 .. 2

\* parameters.ethersSigner by address: undefined (0) or an account.
Signers == 0 .. 2

\* undefined, for a chain, an address or a signer.
Undefined == 0

\* The chain whose deployment is the contract modelled above; what the
\* deployment on the other chain holds is not followed.
HomeChain == 1

\* What a read of the other chain's deployment may return: the six handles
\* of a deployment without positions, or with some.
RemoteHandles ==
    { << 0, 0, 0, 0, 101, 102 >>, << 103, 104, 105, 106, 101, 102 >> }

\* What the handles of the other chain's deployment may decrypt to.
RemoteClears == {7}

\* What the user types into the forms.
HookPositionInputs == { <<10, 100, 200>> }
HookVolatilityInputs == {60}
HookParameterInputs == { <<5, 10>> }

\* getFHEAMMByChainId: the address recorded for the chain, if any.
getFHEAMMByChainId(c) ==
    [address |-> IF c = Undefined THEN Undefined ELSE 10 + c, chainId |-> c]

\* ammRef.current, assigned in the useMemo that computes amm.
ammRef == getFHEAMMByChainId(chainId)

\* amm, the memoised getFHEAMMByChainId(chainId).
amm == ammRef

\* The page's runner: a BrowserProvider once provider and chainId are set.
ethersReadonlyProvider == chainId # Undefined

\* sameChainRef.current, as the page's effect on chainId leaves it.
sameChain(c) == c = chainId

\* sameSignerRef.current, as the page's effect on signer leaves it: it
\* compares addresses.
sameSigner(s) == s = ethersSigner

\* Mutant: the stale check forgets the signer.
isStale_IgnoresSigner(o) ==
    \/ o.thisAddress # ammRef.address
    \/ ~ sameChain(o.thisChainId)

\* isStale() of a run o of submitPosition, submitVolatility or
\* decryptAggregates.
isStale(o) ==
    \/ o.thisAddress # ammRef.address
    \/ ~ sameChain(o.thisChainId)
    \/ ~ sameSigner(o.thisSigner)

\* Mutant: refreshAggregates stores whatever the read returns.
stillCurrent_Always(o) == TRUE

\* The condition under which refreshAggregates stores what it fetched.
stillCurrent(o) ==
    /\ sameChain(o.thisChainId)
    /\ o.thisAddress = ammRef.address

\* Mutant: every loaded handle is pushed, the zero handle included.
toDecrypt_Unfiltered(h) == { h[k] : k \in DOMAIN h }

\* toDecrypt: the loaded handles that `push` keeps.
toDecrypt(h) == { h[k] : k \in DOMAIN h } \ {NullHandle}

\* Mutant: a callback starts its run without taking busy.
Started_NoBusy(o) ==
    /\ busyRef' = busyRef
    /\ running' = running \cup {o}

\* `busyRef.current = true; setBusy(true)` and the asynchronous run o begins.
Started(o) ==
    /\ busyRef' = TRUE
    /\ running' = running \cup {o}

\* Mutant: the run ends without releasing busy.
Finally_KeepsBusy(o) ==
    /\ busyRef' = busyRef
    /\ running' = running \ {o}

\* `finally { busyRef.current = false; setBusy(false); }` ends run o.
Finally(o) ==
    /\ busyRef' = FALSE
    /\ running' = running \ {o}

\* Run o goes on to await pc.
Awaits(o, pc) ==
    /\ running' = (running \ {o}) \cup {[o EXCEPT !.pc = pc]}
    /\ UNCHANGED busyRef

\* The callback name is invoked: the user's click, or an effect.
Invoked(name) ==
    /\ ncalls < MaxHookCalls
    /\ ncalls' = ncalls + 1
    /\ invoked' = name

\* A continuation of a run resumes: no callback is invoked.
Resumed == invoked' = "none" /\ UNCHANGED ncalls

\* A new run of callback name.
Run(name, pc, chain, address, signer, arg, loaded) ==
    [name |-> name, pc |-> pc, thisChainId |-> chain, thisAddress |-> address,
     thisSigner |-> signer, arg |-> arg, handles |-> loaded]

\* What the contract and its observers keep.
chainVars == << contractVars, now, submitted, last >>

\* What the page passes to the hook.
pageVars == << chainId, ethersSigner, instance >>

\* ------------------------------------------------------------- the page

\* A step that invokes no callback and asks nothing of the outside.
Quiet == invoked' = "none" /\ sent' = << >>

\* The wallet connects, or moves to another chain: the page re-renders with
\* the new chainId.
ChainChanged ==
    /\ \E c \in Chains \ {chainId} : chainId' = c
    /\ Quiet
    /\ UNCHANGED << chainVars, ethersSigner, instance, busyRef, handles,
                    clears, applied, running, ncalls >>

\* `web3.getSigner().then(setSigner)` delivers another signer, or none.
SignerChanged ==
    /\ \E s \in Signers \ {ethersSigner} : ethersSigner' = s
    /\ Quiet
    /\ UNCHANGED << chainVars, chainId, instance, busyRef, handles, clears,
                    applied, running, ncalls >>

\* useFhevm delivers its instance.
InstanceChanged ==
    /\ ~ instance
    /\ instance' = TRUE
    /\ Quiet
    /\ UNCHANGED << chainVars, chainId, ethersSigner, busyRef, handles,
                    clears, applied, running, ncalls >>

\* ------------------------------------------------------------ callbacks

\* The hook's own state.
hookState == << handles, clears, applied >>

\* The transaction run o hands to its signer.
Tx(o) ==
    [kind |-> "tx", name |-> o.name, to |-> o.thisAddress,
     from |-> o.thisSigner, arg |-> o.arg]

\* The reads of the deployment at address a.
Read(a) == [kind |-> "read", to |-> a]

\* The request for a decryption signature by signer s.
Signature(s) == [kind |-> "signature", from |-> s]

\* The userDecrypt request for the handles hs.
UserDecrypt(hs) == [kind |-> "decrypt", handles |-> hs]

\* submitPosition(l, lo, up) up to `run()` reaching its first await.
useFHEAMM_submitPosition(in) ==
    /\ Invoked("submitPosition")
    /\ IF \/ busyRef
          \/ amm.address = Undefined \/ ~ instance \/ ethersSigner = Undefined
       THEN UNCHANGED << busyRef, running >>
       ELSE Started(Run("submitPosition", "encrypting", chainId, amm.address,
                        ethersSigner, in, << >>))
    /\ sent' = << >>
    /\ UNCHANGED << chainVars, pageVars, hookState >>

\* submitVolatility(v) up to `run()` reaching its first await.
useFHEAMM_submitVolatility(v) ==
    /\ Invoked("submitVolatility")
    /\ IF \/ busyRef
          \/ amm.address = Undefined \/ ~ instance \/ ethersSigner = Undefined
       THEN UNCHANGED << busyRef, running >>
       ELSE Started(Run("submitVolatility", "encrypting", chainId,
                        amm.address, ethersSigner, << v >>, << >>))
    /\ sent' = << >>
    /\ UNCHANGED << chainVars, pageVars, hookState >>

\* A run of submitPosition or submitVolatility from the timer to the end of
\* `await input.encrypt()` and the stale check that follows it.
Encrypted(o) ==
    /\ o.name \in {"submitPosition", "submitVolatility"}
    /\ o.pc = "encrypting"
    /\ \/ \* getAddress or encrypt throws, or the address is unresolved
          /\ Finally(o)
          /\ sent' = << >>
       \/ /\ isStale(o)
          /\ Finally(o)
          /\ sent' = << >>
       \/ /\ ~ isStale(o)
          /\ sent' = Tx(o)
          /\ Awaits(o, "sent")
    /\ Resumed
    /\ UNCHANGED << chainVars, pageVars, hookState >>

\* The transaction of run o executed by the modelled contract.
Executed(o) ==
    \/ /\ o.name = "submitPosition"
       /\ SubmitPosition(o.thisSigner, o.arg[1], o.arg[2], o.arg[3], now)
    \/ /\ o.name = "submitVolatility"
       /\ SubmitVolatility(o.thisSigner, o.arg[1], now)
    \/ /\ o.name = "applyParameters"
       /\ ApplyParameters(o.thisSigner, o.arg[1], o.arg[2], now)

\* refreshApplied(): the read of the applied parameters and the owner from
\* the deployment now shown, and the `.then` or `.catch` that stores its
\* outcome; nothing the hook does reads `applied` or `owner`, so the
\* settling of this read is not interleaved with other steps.
refreshApplied ==
    IF ammRef.address = Undefined \/ ~ ethersReadonlyProvider
    THEN /\ sent' = << >>
         /\ UNCHANGED applied
    ELSE /\ sent' = Read(ammRef.address)
         /\ \/ applied' = << >>
            \/ applied' = IF chainId = HomeChain
                          THEN << appliedFeeRatio', appliedTickSpacing',
                                  _owner >>
                          ELSE << 0, 0, Undefined >>

\* `await contract.<call>(...)` and `await tx.wait()` of run o settle.
TxSettled(o) ==
    /\ o.pc = "sent"
    /\ \/ \* rejected by the wallet, by gas estimation, or reverted
          /\ Finally(o)
          /\ sent' = << >>
          /\ UNCHANGED << chainVars, applied >>
       \/ \* mined
          /\ IF o.thisChainId = HomeChain
             THEN Executed(o)
             ELSE UNCHANGED chainVars
          /\ Finally(o)
          /\ IF o.name = "applyParameters"
             THEN refreshApplied
             ELSE sent' = << >> /\ UNCHANGED applied
    /\ Resumed
    /\ UNCHANGED << pageVars, handles, clears >>

\* refreshAggregates() up to the three reads being issued.
useFHEAMM_refreshAggregates ==
    /\ Invoked("refreshAggregates")
    /\ IF \/ busyRef
          \/ ammRef.address = Undefined \/ ~ ethersReadonlyProvider
       THEN /\ sent' = << >>
            /\ UNCHANGED << busyRef, running >>
       ELSE /\ Started(Run("refreshAggregates", "reading", ammRef.chainId,
                           ammRef.address, Undefined, << >>, << >>))
            /\ sent' = Read(ammRef.address)
    /\ UNCHANGED << chainVars, pageVars, hookState >>

\* What getAggregates() and getSuggestions() return from the deployment on
\* chain c.
Fetched(c) ==
    IF c = HomeChain
    THEN { << getAggregates[1], getAggregates[2], getAggregates[3],
              getAggregates[4], getSuggestions[1], getSuggestions[2] >> }
    ELSE RemoteHandles

\* The Promise.all of run o settles: `.then`, or `.catch`, and `.finally`.
ReadSettled(o) ==
    /\ o.name = "refreshAggregates"
    /\ o.pc = "reading"
    /\ \/ UNCHANGED handles
       \/ \E f \in Fetched(o.thisChainId) :
              handles' = IF stillCurrent(o) THEN f ELSE handles
    /\ Finally(o)
    /\ Resumed
    /\ sent' = << >>
    /\ UNCHANGED << chainVars, pageVars, clears, applied >>

\* decryptAggregates() up to `run()` reaching its first await.
useFHEAMM_decryptAggregates ==
    /\ Invoked("decryptAggregates")
    /\ IF \/ busyRef
          \/ amm.address = Undefined \/ ~ instance \/ ethersSigner = Undefined
       THEN /\ sent' = << >>
            /\ UNCHANGED << busyRef, running, clears >>
       ELSE IF toDecrypt(handles) = {}
            THEN /\ clears' = << >>
                 /\ sent' = << >>
                 /\ UNCHANGED << busyRef, running >>
            ELSE /\ Started(Run("decryptAggregates", "signing", chainId,
                                amm.address, ethersSigner, << >>, handles))
                 /\ sent' = Signature(ethersSigner)
                 /\ UNCHANGED clears
    /\ UNCHANGED << chainVars, pageVars, handles, applied >>

\* `await FhevmDecryptionSignature.loadOrSign(...)` of run o settles, with
\* the checks that follow it, up to userDecrypt being asked.
Signed(o) ==
    /\ o.name = "decryptAggregates"
    /\ o.pc = "signing"
    /\ \/ \* loadOrSign throws, or yields no signature
          /\ Finally(o)
          /\ sent' = << >>
       \/ /\ isStale(o)
          /\ Finally(o)
          /\ sent' = << >>
       \/ /\ ~ isStale(o)
          /\ sent' = UserDecrypt(toDecrypt(o.handles))
          /\ Awaits(o, "decrypting")
    /\ Resumed
    /\ UNCHANGED << chainVars, pageVars, hookState >>

\* What instance.userDecrypt can resolve to for run o: the plaintexts of its
\* six handles when its signer is allowed on every handle asked for; the
\* zero handle, never asked for, reads as 0.
Decryptions(o) ==
    IF o.thisChainId = HomeChain
    THEN IF \A h \in toDecrypt(o.handles) :
                h \in DOMAIN store /\ o.thisSigner \in Allowed(h)
         THEN { [k \in 1 .. 6 |->
                    IF o.handles[k] \in DOMAIN store
                    THEN Clear(store, o.handles[k]) ELSE 0] }
         ELSE {}
    ELSE IF o.handles \in RemoteHandles
         THEN { [k \in 1 .. 6 |->
                    IF o.handles[k] = NullHandle THEN 0 ELSE v] :
                v \in RemoteClears }
         ELSE {}

\* `await instance.userDecrypt(...)` of run o settles.
Decrypted(o) ==
    /\ o.name = "decryptAggregates"
    /\ o.pc = "decrypting"
    /\ \/ UNCHANGED clears
       \/ \E r \in Decryptions(o) : clears' = r
    /\ Finally(o)
    /\ Resumed
    /\ sent' = << >>
    /\ UNCHANGED << chainVars, pageVars, handles, applied >>

\* applyParameters(fee, tick) up to the transaction being handed over.
useFHEAMM_applyParameters(in) ==
    /\ Invoked("applyParameters")
    /\ IF busyRef \/ amm.address = Undefined \/ ethersSigner = Undefined
       THEN /\ sent' = << >>
            /\ UNCHANGED << busyRef, running >>
       ELSE \E o \in { Run("applyParameters", "sent", chainId, amm.address,
                           ethersSigner, in, << >>) } :
                /\ Started(o)
                /\ sent' = Tx(o)
    /\ UNCHANGED << chainVars, pageVars, hookState >>

\* --------------------------------------------------------- specification

\* The user, or an effect, invokes one of the hook's callbacks.
Invoke ==
    \/ \E in \in HookPositionInputs : useFHEAMM_submitPosition(in)
    \/ \E v \in HookVolatilityInputs : useFHEAMM_submitVolatility(v)
    \/ useFHEAMM_refreshAggregates
    \/ useFHEAMM_decryptAggregates
    \/ \E in \in HookParameterInputs : useFHEAMM_applyParameters(in)

\* An awaited promise of a run in flight settles and the run goes on.
Settle ==
    \E o \in running :
        \/ Encrypted(o)
        \/ TxSettled(o)
        \/ ReadSettled(o)
        \/ Signed(o)
        \/ Decrypted(o)

HookNext ==
    \/ ChainChanged
    \/ SignerChanged
    \/ InstanceChanged
    \/ Invoke
    \/ Settle

HookSpec == Init /\ [][HookNext]_vars

\* Every awaited promise settles.
HookLive == HookSpec /\ WF_vars(Settle)

\* ================================================================== claims

\* The accounts whose position has exists = true.
Holders == { a \in DOMAIN _positions : _positions[a].exists }

RECURSIVE SumBetween(_, _, _, _)
\* The arithmetic sum, over the accounts of S from lo to hi, of the k-th
\* plaintext each last submitted, by halves.
SumBetween(S, k, lo, hi) ==
    IF lo > hi THEN 0
    ELSE IF lo = hi THEN (IF lo \in S THEN submitted[lo][k] ELSE 0)
    ELSE SumBetween(S, k, lo, (lo + hi) \div 2)
             + SumBetween(S, k, (lo + hi) \div 2 + 1, hi)

\* The arithmetic sum, over the accounts of S, of the k-th plaintext each
\* last submitted.
SumOver(S, k) ==
    IF S = {} THEN 0
    ELSE SumBetween(S, k, CHOOSE x \in S : \A y \in S : x <= y,
                          CHOOSE x \in S : \A y \in S : y <= x)

\* The three running sums as an authorised reader decrypts them.
DecryptedSums ==
    << Decrypt(_aggLiquidity), Decrypt(_sumPriceLower), Decrypt(_sumPriceUpper) >>

\* A step that is a successful call of op.
Called(op) == _actionHashes' # _actionHashes /\ last'.op = op

\* ------------------------------------------------------------------- C1

\* C1 as stated: in every reachable state each decrypted running sum equals
\* the arithmetic sum of the values last submitted by the accounts with
\* exists = true.
C1_SumsAreArithmeticSums ==
    /\ Holders = DOMAIN submitted
    /\ \A k \in 1 .. 3 : DecryptedSums[k] = SumOver(Holders, k)

\* C1 amended: in every reachable state each decrypted running sum equals
\* the sum of the values last submitted by the accounts with exists = true,
\* reduced modulo the number of values of the encrypted integer.
C1_SumsAreSumsModulo ==
    /\ Holders = DOMAIN submitted
    /\ \A k \in 1 .. 3 : DecryptedSums[k] = SumOver(Holders, k) % UintMod

\* C1 witness: two accounts hold positions, one of them resubmitted, and
\* the true liquidity sum no longer fits the encrypted integer.
C1_Witness ==
    /\ Cardinality(Holders) = 2
    /\ Len(events) = 3
    /\ \A i \in 1 .. 3 : events[i].name = "PositionSubmitted"
    /\ SumOver(Holders, 1) >= UintMod

\* ------------------------------------------------------------------- C2

\* C2: when an account submits A and then B, each decrypted running sum
\* after B equals what submitting B alone would have produced from the
\* state before A.
C2_IdempotentReplace ==
    [][ ( /\ last.op = "submitPosition"
          /\ Called("submitPosition")
          /\ last'.sender = last.sender )
        => \A k \in 1 .. 3 :
              DecryptedSums[k]' =
                  ReplacedSum(last.pre.exists, last.pre.sums[k],
                              last.pre.stored[k], last'.arg[k]) ]_vars

\* C2 witness: an account that already held a position submitted A and then
\* B, different from A, while another account holds a position too.
C2_Witness ==
    /\ Len(events) = 3
    /\ \A i \in 1 .. 3 : events[i].name = "PositionSubmitted"
    /\ events[2].user = events[3].user
    /\ events[1].user # events[2].user
    /\ last.pre.stored # last.arg
    /\ last.pre.stored[1] = UintMod - 1

\* ------------------------------------------------------------------- C3

\* The two counters as an authorised reader decrypts them.
DecryptedCounters ==
    << Decrypt(_numPositions), Decrypt(_twoTimesNumPositions) >>

\* C3 as stated: a successful first submitPosition of an account increases
\* decrypted numPositions by exactly 1 and twoTimesNumPositions by exactly
\* 2; a resubmission leaves both counters, value and handle, unchanged.
C3_CountersStepExactly ==
    [][ Called("submitPosition") =>
          IF last'.pre.exists
          THEN UNCHANGED << _numPositions, _twoTimesNumPositions >>
               /\ DecryptedCounters' = DecryptedCounters
          ELSE /\ DecryptedCounters[1]' = DecryptedCounters[1] + 1
               /\ DecryptedCounters[2]' = DecryptedCounters[2] + 2 ]_vars

\* C3 amended: a successful first submitPosition of an account increases
\* decrypted numPositions by 1 and twoTimesNumPositions by 2, both modulo
\* the number of values of the encrypted integer; a resubmission leaves both
\* counters, value and handle, unchanged.
C3_CountersStepModulo ==
    [][ Called("submitPosition") =>
          IF last'.pre.exists
          THEN UNCHANGED << _numPositions, _twoTimesNumPositions >>
               /\ DecryptedCounters' = DecryptedCounters
          ELSE /\ DecryptedCounters[1]' = (DecryptedCounters[1] + 1) % UintMod
               /\ DecryptedCounters[2]' = (DecryptedCounters[2] + 2) % UintMod
               /\ _numPositions' # _numPositions
               /\ _twoTimesNumPositions' # _twoTimesNumPositions ]_vars

\* C3 witness: a first submission has just wrapped twoTimesNumPositions.
C3_Witness ==
    /\ last.op = "submitPosition"
    /\ ~last.pre.exists
    /\ DecryptedCounters = << UintMod \div 2, 0 >>

\* ------------------------------------------------------------------- C4

\* C4 as stated: in every reachable state decrypted twoTimesNumPositions
\* equals 2 * decrypted numPositions.
C4_TwoTimesIsDouble == DecryptedCounters[2] = 2 * DecryptedCounters[1]

\* C4 amended: in every reachable state decrypted twoTimesNumPositions
\* equals 2 * decrypted numPositions modulo the number of values of the
\* encrypted integer.
C4_TwoTimesIsDoubleModulo ==
    DecryptedCounters[2] = (2 * DecryptedCounters[1]) % UintMod

\* C4 witness: two accounts hold positions and one of them resubmitted.
C4_Witness ==
    /\ DecryptedCounters = << 2, 4 >>
    /\ last.op = "submitPosition"
    /\ last.pre.exists

\* ------------------------------------------------------------------- C5

\* C5 as stated: in every reachable state the fourth handle of
\* getAggregates decrypts to twice the number of accounts with
\* exists = true, and numPositions to that number.
C5_FourthHandleCountsHolders ==
    /\ Decrypt(getAggregates[4]) = 2 * Cardinality(Holders)
    /\ Decrypt(_numPositions) = Cardinality(Holders)

\* C5 amended: in every reachable state the fourth handle of getAggregates
\* is null while no account has a position, and otherwise decrypts to twice
\* the number of accounts with exists = true modulo the number of values of
\* the encrypted integer; numPositions likewise, to that number.
C5_FourthHandleCountsHoldersModulo ==
    IF Holders = {}
    THEN getAggregates[4] = NullHandle /\ _numPositions = NullHandle
    ELSE /\ getAggregates[4] # NullHandle
         /\ _numPositions # NullHandle
         /\ Decrypt(getAggregates[4]) = (2 * Cardinality(Holders)) % UintMod
         /\ Decrypt(_numPositions) = Cardinality(Holders) % UintMod

\* C5 witness: an account resubmitted while two accounts hold positions.
C5_Witness ==
    /\ Cardinality(Holders) = 2
    /\ Len(events) = 3
    /\ last.op = "submitPosition"
    /\ last.pre.exists
    /\ Decrypt(getAggregates[4]) = 4

\* ------------------------------------------------------------------- C6

\* The two suggestions as an authorised reader decrypts them.
DecryptedSuggestions ==
    << Decrypt(_suggestedFeeRatio), Decrypt(_suggestedTickSpacing) >>

C7_SuggestionsNeverDecrease ==
    [][ \A k \in 1 .. 2 :
            DecryptedSuggestions[k]' >= DecryptedSuggestions[k] ]_vars

\* C7 amended: across every step each decrypted suggestion is at least what
\* it was before the step, except that a qualifying submitVolatility takes
\* a suggestion at the largest value of the encrypted integer back to 0.
C7_SuggestionsNeverDecreaseButWrap ==
    [][ \A k \in 1 .. 2 :
            \/ DecryptedSuggestions[k]' >= DecryptedSuggestions[k]
            \/ /\ Called("submitVolatility")
               /\ last'.arg[1] >= 50
               /\ DecryptedSuggestions[k] = UintMod - 1
               /\ DecryptedSuggestions[k]' = 0 ]_vars

\* C7 witness: a qualifying submitVolatility has just taken both suggestions
\* from the largest value back to 0.
C7_Witness ==
    /\ Len(events) = UintMod
    /\ last.op = "submitVolatility"
    /\ last.arg[1] >= 50
    /\ DecryptedSuggestions = << 0, 0 >>

\* ------------------------------------------------------------------- C8

\* The handles of c's stored position.
PositionHandles(c) ==
    { getMyPosition(c).liquidity, getMyPosition(c).priceLower,
      getMyPosition(c).priceUpper }

\* The non-null handles getAggregates and getSuggestions return to any
\* caller.
SharedHandles ==
    ( { getAggregates[k] : k \in 1 .. 4 } \cup
      { getSuggestions[k] : k \in 1 .. 2 } ) \ {NullHandle}

\* The non-null handles the three queries return to caller c.
Returned(c) == SharedHandles \cup (PositionHandles(c) \ {NullHandle})

\* The two handles the constructor created.
ConstructorHandles == 1 .. 2

C9_RegrantOnMutation ==
    /\ last.op = "submitPosition" =>
           \A h \in { _aggLiquidity, _sumPriceLower, _sumPriceUpper }
                    \cup PositionHandles(last.sender) :
               /\ h # NullHandle
               /\ {This, last.sender, _owner} \subseteq Allowed(h)
    /\ last.op = "submitVolatility" =>
           \A h \in { _suggestedFeeRatio, _suggestedTickSpacing } :
               /\ h # NullHandle
               /\ {This, last.sender, _owner} \subseteq Allowed(h)

\* C9 witness: an account other than the owner has just resubmitted its
\* position after another account's volatility.
C9_Witness ==
    /\ last.op = "submitPosition"
    /\ last.pre.exists
    /\ last.sender # _owner
    /\ Len(events) = 3
    /\ events[2].name = "VolatilitySubmitted"
    /\ events[2].user \notin {last.sender, _owner}

\* ------------------------------------------------------------------ C10

\* The accounts that made a successful submitPosition or submitVolatility.
Submitters ==
    { events[i].user :
        i \in { j \in DOMAIN events : events[j].name # "ParametersApplied" } }

C11_HolderKeepsAccess ==
    \A x \in Holders :
        \A h \in PositionHandles(x) :
            /\ h # NullHandle
            /\ {x, This} \subseteq Allowed(h)

\* C11 witness: an account other than the owner submitted its position, and
\* two other accounts have since submitted a position and a volatility.
C11_Witness ==
    /\ Len(events) = 3
    /\ events[1].name = "PositionSubmitted"
    /\ events[1].user # _owner
    /\ events[2].name = "PositionSubmitted"
    /\ events[3].name = "VolatilitySubmitted"
    /\ Cardinality({events[1].user, events[2].user, events[3].user}) = 3

\* ------------------------------------------------------------------ C12

\* The applied parameters.
Applied == << appliedFeeRatio, appliedTickSpacing >>

\* C12: an applyParameters call by any account other than the owner fails
\* with Unauthorized and changes nothing in the contract: not the applied
\* parameters, not the audit log, no notification, no other state.
C12_NonOwnerApplyFails ==
    [][ (last'.op = "applyParameters" /\ last'.sender # _owner)
            => (last'.status = "Unauthorized" /\ UNCHANGED contractVars) ]_vars

\* C12 witness: after parameters were applied and a position submitted, an
\* account other than the owner has been turned away with other parameters.
C12_Witness ==
    /\ last.op = "applyParameters"
    /\ last.status = "Unauthorized"
    /\ last.sender # _owner
    /\ Len(_actionHashes) = 2
    /\ Holders # {}
    /\ Applied = << 5, 10 >>
    /\ last.arg # Applied

\* ------------------------------------------------------------------ C13

\* C13: an applyParameters call succeeds exactly when its sender is the
\* owner; when it succeeds the applied parameters are exactly its arguments,
\* one audit entry and one notification are added, and nothing else changes:
\* neither the outcome nor the resulting state depends on the suggestions.
C13_ApplyIgnoresSuggestions ==
    [][ /\ last'.op = "applyParameters"
            => (last'.status = "ok" <=> last'.sender = _owner)
        /\ Called("applyParameters")
            => /\ Applied' = last'.arg
               /\ _actionHashes' =
                      Append(_actionHashes,
                             Digest("APPLY_PARAMETERS", last'.sender, now'))
               /\ events' =
                      Append(events, [name        |-> "ParametersApplied",
                                      feeRatio    |-> last'.arg[1],
                                      tickSpacing |-> last'.arg[2]])
               /\ UNCHANGED << _owner, _positions, _aggLiquidity,
                               _sumPriceLower, _sumPriceUpper, _numPositions,
                               _twoTimesNumPositions, _suggestedFeeRatio,
                               _suggestedTickSpacing, store >> ]_vars

\* C13 witness: the owner has applied the extreme pair while the suggestions
\* stood at 1, well away from it.
C13_Witness ==
    /\ last.op = "applyParameters"
    /\ last.status = "ok"
    /\ Applied = << 0, UintMod - 1 >>
    /\ DecryptedSuggestions = << 1, 1 >>

\* ------------------------------------------------------------------ C14

\* C14: the applied parameters change only in a successful applyParameters
\* call by the owner; and an applyParameters call leaves every position,
\* running sum, counter, suggestion and grant unchanged.
C14_NoPropagation ==
    [][ /\ Applied' # Applied
            => /\ last'.op = "applyParameters"
               /\ last'.status = "ok"
               /\ last'.sender = _owner
        /\ last'.op = "applyParameters"
            => UNCHANGED << _positions, _aggLiquidity, _sumPriceLower,
                            _sumPriceUpper, _numPositions,
                            _twoTimesNumPositions, _suggestedFeeRatio,
                            _suggestedTickSpacing, store >> ]_vars

\* C14 witness: parameters were applied, and a qualifying volatility has
\* since raised the suggestions without touching them.
C14_Witness ==
    /\ last.op = "submitVolatility"
    /\ last.status = "ok"
    /\ DecryptedSuggestions = << 1, 1 >>
    /\ Applied = << 5, 10 >>

\* ------------------------------------------------------------------ C15

\* The state-changing operations.
Mutators == {"submitPosition", "submitVolatility", "applyParameters"}

\* C15: getActionsLength() always equals the number of successful
\* state-changing calls, each of which left one notification; every step
\* that changes the contract is such a call and appends exactly one entry;
\* a call that fails and a read query append none.
C15_AuditCompleteness ==
    [][ /\ getActionsLength' = Len(events')
        /\ ~ UNCHANGED contractVars
            => /\ getActionsLength' = getActionsLength + 1
               /\ last'.op \in Mutators
               /\ last'.status = "ok"
        /\ (last'.op \notin Mutators \/ last'.status # "ok")
            => UNCHANGED _actionHashes ]_vars

\* C15 witness: two calls succeeded, a third was rejected for its proof, and
\* the log has two entries.
C15_Witness ==
    /\ last.status = "InvalidCiphertextProof"
    /\ Len(events) = 2
    /\ getActionsLength = 2

\* ------------------------------------------------------------------ C16

\* The tag _pushAction is given by each operation.
TagOf(op) ==
    CASE op = "submitPosition"   -> "SUBMIT_POSITION"
      [] op = "submitVolatility" -> "SUBMIT_VOLATILITY"
      [] op = "applyParameters"  -> "APPLY_PARAMETERS"

\* C16: the log never gets shorter; getActionAt(i) answers the same for an
\* index once it is within the log; and when the log grows, the entry at
\* the new last index is the digest of the tag, sender and timestamp of the
\* call that has just succeeded.
C16_AppendOnlyOrdered ==
    [][ /\ getActionsLength' >= getActionsLength
        /\ \A i \in 0 .. getActionsLength - 1 :
               getActionAt(i)' = getActionAt(i)
        /\ getActionsLength' > getActionsLength
            => \E i \in {getActionsLength} :
                   getActionAt(i)' =
                       [status |-> "ok",
                        value  |-> Digest(TagOf(last'.op), last'.sender,
                                          now')] ]_vars

\* C16 witness: getActionAt(1) has returned the digest of the second call,
\* a position submitted by account 2 at time 1, after an applyParameters by
\* the owner at time 0.
C16_Witness ==
    /\ last.op = "getActionAt"
    /\ last.arg = << 1 >>
    /\ last.status = "ok"
    /\ getActionAt(0).value = Digest("APPLY_PARAMETERS", _owner, 0)
    /\ getActionAt(1).value = Digest("SUBMIT_POSITION", 2, 1)

\* ------------------------------------------------------------------ C17

\* C17: a getActionAt(index) call fails with IndexOutOfRange when
\* index >= getActionsLength(), the empty log included, succeeds when
\* index < getActionsLength(), and changes nothing either way.
C17_IndexOutOfRange ==
    [][ last'.op = "getActionAt"
            => /\ UNCHANGED contractVars
               /\ last'.arg[1] >= getActionsLength
                      => last'.status = "IndexOutOfRange"
               /\ last'.arg[1] < getActionsLength
                      => last'.status = "ok" ]_vars

\* C17 witness: getActionAt(0) has failed on the empty log.
C17_Witness ==
    /\ last.op = "getActionAt"
    /\ last.arg = << 0 >>
    /\ last.status = "IndexOutOfRange"
    /\ getActionsLength = 0

\* ------------------------------------------------------------------ C18

\* C18: the log after a successful call is the log before it with the digest
\* of the call's tag, sender and timestamp appended, whatever values the
\* call carried; in particular a call with the tag, sender and timestamp of
\* the call before it appends the very same entry, whatever the two calls
\* submitted.
C18_AuditBlindness ==
    [][ getActionsLength' > getActionsLength
            => /\ _actionHashes' =
                      Append(_actionHashes,
                             Digest(TagOf(last'.op), last'.sender, now'))
               /\ ( /\ getActionsLength >= 1
                    /\ last'.op = last.op
                    /\ last'.sender = last.sender
                    /\ now' = now )
                      => _actionHashes'[getActionsLength'] =
                             _actionHashes[getActionsLength] ]_vars

\* C18 witness: one account submitted two different positions at the same
\* timestamp, and the two entries of the log are equal.
C18_Witness ==
    /\ getActionsLength = 2
    /\ last.op = "submitPosition"
    /\ last.pre.exists
    /\ last.pre.stored # last.arg
    /\ getActionAt(0) = getActionAt(1)

\* ------------------------------------------------------------------ C19

\* C19: a submitPosition or submitVolatility call rejected for its proof, at
\* whichever input, leaves every position, flag, running sum, counter,
\* suggestion, grant, the audit log and the notifications as they were.
C19_AtomicFailure ==
    [][ last'.status = "InvalidCiphertextProof"
            => /\ last'.op \in {"submitPosition", "submitVolatility"}
               /\ UNCHANGED contractVars ]_vars

\* C19 witness: an account with a position has had a resubmission rejected
\* at its third input.
C19_Witness ==
    /\ last.op = "submitPosition"
    /\ last.status = "InvalidCiphertextProof"
    /\ last.arg = << 3 >>
    /\ last.pre.exists
    /\ getActionsLength = 2

\* ------------------------------------------------------------------ C20

\* C20: every successful submitVolatility, whatever the volatility, puts a
\* fresh handle in each suggestion field, makes the same three grants on
\* each and no other, appends the digest of (SUBMIT_VOLATILITY, sender,
\* timestamp), emits VolatilitySubmitted(sender) and changes nothing else.
C20_DataIndependentShape ==
    [][ Called("submitVolatility")
            => /\ _suggestedFeeRatio' \notin DOMAIN store \cup {NullHandle}
               /\ _suggestedTickSpacing' \notin DOMAIN store \cup {NullHandle}
               /\ _suggestedFeeRatio' # _suggestedTickSpacing'
               /\ DOMAIN store' =
                      DOMAIN store \cup
                          {_suggestedFeeRatio', _suggestedTickSpacing'}
               /\ \A h \in DOMAIN store : store'[h] = store[h]
               /\ store'[_suggestedFeeRatio'].allowed =
                      {This, last'.sender, _owner}
               /\ store'[_suggestedTickSpacing'].allowed =
                      {This, last'.sender, _owner}
               /\ _actionHashes' =
                      Append(_actionHashes,
                             Digest("SUBMIT_VOLATILITY", last'.sender, now'))
               /\ events' =
                      Append(events, [name |-> "VolatilitySubmitted",
                                      user |-> last'.sender])
               /\ UNCHANGED << _owner, _positions, _aggLiquidity,
                               _sumPriceLower, _sumPriceUpper, _numPositions,
                               _twoTimesNumPositions, appliedFeeRatio,
                               appliedTickSpacing >> ]_vars

\* C20 witness: a volatility at the threshold and then one below it; the
\* second replaced both handles again although the values stayed at 1.
C20_Witness ==
    /\ Len(events) = 2
    /\ last.op = "submitVolatility"
    /\ last.arg = << 49 >>
    /\ DecryptedSuggestions = << 1, 1 >>
    /\ getSuggestions = << 5, 6 >>

\* ------------------------------------------------------------------ C21

\* C21: from the initial state, a first submission of (10, 100, 200) leaves
\* the liquidity sum at 10 and the position count at 1; the same account's
\* resubmission of (15, 90, 210) leaves the sums at (15, 90, 210) and the
\* count at 1; a volatility of 60 that follows leaves both suggestions at 1.
C21_ScenarioValues ==
    [][ /\ ( /\ getActionsLength = 0
             /\ Called("submitPosition")
             /\ last'.arg = << 10, 100, 200 >> )
            => /\ DecryptedSums'[1] = 10
               /\ DecryptedCounters'[1] = 1
        /\ ( /\ ScenarioAfterFirst
             /\ Called("submitPosition")
             /\ last'.sender = last.sender
             /\ last'.arg = << 15, 90, 210 >> )
            => /\ DecryptedSums' = << 15, 90, 210 >>
               /\ DecryptedCounters'[1] = 1
        /\ ( /\ ScenarioAfterSecond
             /\ Called("submitVolatility")
             /\ last'.arg = << 60 >> )
            => DecryptedSuggestions' = << 1, 1 >> ]_vars

\* C21 witness: the three calls of the scenario have been made, the
\* volatility by an account other than the one holding the position.
C21_Witness ==
    /\ ScenarioAfterThird
    /\ last.sender # events[1].user
    /\ DecryptedSums = << 15, 90, 210 >>
    /\ DecryptedCounters[1] = 1
    /\ DecryptedSuggestions = << 1, 1 >>

\* ------------------------------------------------------------------ C22

\* C22 as stated: when the owner's applyParameters(5, 10) succeeds after the
\* three earlier calls of the scenario, getActionsLength() is 3.
C22_ScenarioLengthThree ==
    [][ ( /\ ScenarioAfterThird
          /\ events' # events
          /\ last'.op = "applyParameters"
          /\ last'.arg = << 5, 10 >> )
            => getActionsLength' = 3 ]_vars

\* C22 amended: when the owner's applyParameters(5, 10) succeeds after the
\* three earlier calls of the scenario, getActionsLength() is 4: one entry
\* for each of the four successful calls.
C22_ScenarioLengthFour ==
    [][ ( /\ ScenarioAfterThird
          /\ events' # events
          /\ last'.op = "applyParameters"
          /\ last'.arg = << 5, 10 >> )
            => getActionsLength' = 4 ]_vars

\* C22 witness: the scenario has run to its end.
C22_Witness ==
    /\ last.op = "applyParameters"
    /\ last.arg = << 5, 10 >>
    /\ Applied = << 5, 10 >>
    /\ Len(events) = 4
    /\ events[2] = events[1]
    /\ events[3].name = "VolatilitySubmitted"
    /\ DecryptedSums = << 15, 90, 210 >>
    /\ DecryptedSuggestions = << 1, 1 >>

\* ------------------------------------------------------------------ C23

\* The read queries.
Queries ==
    {"getAggregates", "getSuggestions", "getMyPosition", "getActionsLength",
     "getActionAt"}

\* C23: in every state every account can call each read query, whatever
\* grants it holds; the call succeeds (getActionAt for an index within the
\* log) and changes no stored value, handle, grant or audit entry.
C23_QueriesPureAndOpen ==
    /\ [](Settled
            => \A c \in Ids :
                   /\ ENABLED GetAggregates(c)
                   /\ ENABLED GetSuggestions(c)
                   /\ ENABLED GetMyPosition(c)
                   /\ ENABLED GetActionsLength(c)
                   /\ \A i \in 0 .. getActionsLength - 1 :
                          ENABLED GetActionAt(c, i))
    /\ [][ last'.op \in Queries
            => /\ UNCHANGED contractVars
               /\ (last'.op = "getActionAt" => last'.arg[1] < getActionsLength)
                      => last'.status = "ok" ]_vars

\* C23 witness: an account holding no grant on any aggregate has fetched the
\* aggregates of two positions.
C23_Witness ==
    /\ last.op = "getAggregates"
    /\ last.status = "ok"
    /\ Cardinality(Holders) = 2
    /\ \A k \in 1 .. 4 :
           /\ getAggregates[k] # NullHandle
           /\ last.sender \notin Allowed(getAggregates[k])

\* ------------------------------------------------------------------ C24

\* What the handles of a position decrypt to.
DecryptedPosition(p) ==
    << Decrypt(p.liquidity), Decrypt(p.priceLower), Decrypt(p.priceUpper) >>

\* C24: in every reachable state getMyPosition called by an account that has
\* submitted returns exists = true and three handles, produced by its own
\* call, that decrypt to the triple it last submitted; called by an account
\* that never submitted it returns exists = false and null handles.
C24_OwnPositionOnly ==
    /\ \A c \in DOMAIN submitted :
           /\ getMyPosition(c).exists
           /\ DecryptedPosition(getMyPosition(c)) = submitted[c]
           /\ \A h \in PositionHandles(c) :
                  h # NullHandle /\ store[h].by = c
    \* every slot ever written, and the accounts that call without one
    /\ \A c \in (DOMAIN _positions \cup Ids \cup {This}) \ DOMAIN submitted :
           getMyPosition(c) = EmptyPosition

\* C24 witness: two accounts hold different positions, a third one none, and
\* the last call was the second account's submission.
C24_Witness ==
    /\ Cardinality(Holders) = 2
    /\ \E a, b \in Holders : submitted[a] # submitted[b]
    /\ Ids \ Holders # {}
    /\ last.op = "submitPosition"
    /\ ~ last.pre.exists
    /\ Len(events) = 3

\* ------------------------------------------------------------------ C25

\* C25: a step changes the stored handles, flag or decrypted triple of an
\* account only if it is a successful submitPosition sent by that account;
\* submitVolatility and applyParameters change no position.
C25_PositionOwnership ==
    [][ \A a \in DOMAIN _positions \cup DOMAIN _positions' :
            ( \/ Position(a)' # Position(a)
              \/ DecryptedPosition(Position(a))' #
                     DecryptedPosition(Position(a)) )
                => /\ Called("submitPosition")
                   /\ last'.sender = a ]_vars

\* C25 witness: an account has resubmitted while another account, whose
\* position differs, kept its own.
C25_Witness ==
    /\ last.op = "submitPosition"
    /\ last.pre.exists
    /\ \E a \in Holders \ {last.sender} :
           /\ submitted[a] # submitted[last.sender]
           /\ DecryptedPosition(Position(a)) = submitted[a]

\* ------------------------------------------------------------------ C26

\* C26: no account has a position after construction; the exists flag of an
\* account turns true only in a successful submitPosition sent by that
\* account, is true after every such call, and once true stays true.
C26_ExistsIsMonotone ==
    [][ /\ getActionsLength = 0 => Holders = {}
        /\ Called("submitPosition")
            => /\ last'.sender \in DOMAIN _positions'
               /\ _positions'[last'.sender].exists
        /\ \A a \in DOMAIN _positions \cup DOMAIN _positions' :
               /\ Position(a).exists => Position(a)'.exists
               /\ (~ Position(a).exists /\ Position(a)'.exists)
                      => /\ Called("submitPosition")
                         /\ last'.sender = a ]_vars

\* C26 witness: an account has submitted three times and still has its
\* position.
C26_Witness ==
    /\ Len(events) = 3
    /\ events[1].name = "PositionSubmitted"
    /\ events[2] = events[1]
    /\ events[3] = events[1]
    /\ Position(events[1].user).exists

\* ------------------------------------------------------------------ C27

\* C27: after construction both suggestions decrypt to 0; a suggestion's
\* handle or value changes only in a successful submitVolatility; and a
\* submitVolatility call changes no position, running sum, counter or
\* applied parameter.
C27_SuggestionsFrame ==
    [][ /\ last.op = "constructor" => DecryptedSuggestions = << 0, 0 >>
        /\ ( \/ getSuggestions' # getSuggestions
             \/ DecryptedSuggestions' # DecryptedSuggestions )
            => /\ last'.op = "submitVolatility"
               /\ last'.status = "ok"
        /\ last'.op = "submitVolatility"
            => /\ UNCHANGED << _positions, _aggLiquidity, _sumPriceLower,
                               _sumPriceUpper, _numPositions,
                               _twoTimesNumPositions, Applied >>
               /\ DecryptedSums' = DecryptedSums
               /\ DecryptedCounters' = DecryptedCounters ]_vars

\* C27 witness: a position was submitted after a qualifying volatility, and
\* the suggestions still are the two handles that volatility produced.
C27_Witness ==
    /\ Len(events) = 2
    /\ events[1].name = "VolatilitySubmitted"
    /\ last.op = "submitPosition"
    /\ last.status = "ok"
    /\ DecryptedSuggestions = << 1, 1 >>
    /\ getSuggestions = << 3, 4 >>

\* ------------------------------------------------------------------ C28

\* C28: a successful submitPosition adds exactly PositionSubmitted(sender) to
\* the notifications, a successful submitVolatility exactly
\* VolatilitySubmitted(sender), a successful applyParameters exactly
\* ParametersApplied with the parameters now applied; a call that fails adds
\* none, and nothing else adds any.
C28_NotificationsOnSuccess ==
    [][ /\ Called("submitPosition")
            => events' = Append(events, [name |-> "PositionSubmitted",
                                         user |-> last'.sender])
        /\ Called("submitVolatility")
            => events' = Append(events, [name |-> "VolatilitySubmitted",
                                         user |-> last'.sender])
        /\ Called("applyParameters")
            => events' = Append(events, [name        |-> "ParametersApplied",
                                         feeRatio    |-> appliedFeeRatio',
                                         tickSpacing |-> appliedTickSpacing'])
        /\ last'.status # "ok" => UNCHANGED events
        /\ events' # events
            => /\ last'.status = "ok"
               /\ last'.op \in Mutators
               /\ getActionsLength' = getActionsLength + 1 ]_vars

\* C28 witness: a volatility and new parameters were notified, and the call
\* that failed after them added nothing.
C28_Witness ==
    /\ last.status # "ok"
    /\ Len(events) = 2
    /\ events[1].name = "VolatilitySubmitted"
    /\ events[2] = [name |-> "ParametersApplied", feeRatio |-> 5,
                    tickSpacing |-> 10]

\* ------------------------------------------------------------------ C29

\* What the contract holds, decrypted: the three running sums, the two
\* counters, and the triple stored for each account with exists = true.
DecryptedState ==
    [sums     |-> DecryptedSums,
     counters |-> DecryptedCounters,
     stored   |-> [a \in Holders |-> DecryptedPosition(Position(a))]]

\* The decrypted state a successful submitPosition by c with plaintexts in
\* leaves behind from the decrypted state st: previous contribution out of
\* each sum and the new one in, counters raised on a first submission only,
\* the triple of c replaced.
AfterSubmitPosition(st, c, in) ==
    LET exists   == c \in DOMAIN st.stored
        previous == IF exists THEN st.stored[c] ELSE << 0, 0, 0 >>
    IN  [sums     |-> [k \in 1 .. 3 |->
                          ReplacedSum(exists, st.sums[k], previous[k], in[k])],
         counters |-> IF exists THEN st.counters
                      ELSE << FHE_add(st.counters[1], 1),
                              FHE_add(st.counters[2], 2) >>,
         stored   |-> WithPosition(st.stored, c, in)]

\* C29: a successful submitPosition is the one atomic replacement of the
\* sender's contribution, and following it by a submitPosition of another
\* identity gives the same decrypted sums, counters and stored triples as the
\* two calls in the other order from the same state.
C29_OrderIndependence ==
    [][ Called("submitPosition") =>
            \A before \in {DecryptedState}, after \in {DecryptedState'} :
                /\ after =
                       AfterSubmitPosition(before, last'.sender, last'.arg)
                /\ \A c \in Ids \ {last'.sender}, in \in PositionInputs :
                       AfterSubmitPosition(after, c, in) =
                           AfterSubmitPosition(
                               AfterSubmitPosition(before, c, in),
                               last'.sender, last'.arg) ]_vars

\* C29 witness: an identity submitted, another one submitted, and the first
\* one resubmitted a different triple.
C29_Witness ==
    /\ Len(events) = 3
    /\ \A i \in 1 .. 3 : events[i].name = "PositionSubmitted"
    /\ events[1].user = events[3].user
    /\ events[2].user # events[3].user
    /\ last.pre.exists
    /\ last.pre.stored # last.arg
    /\ DecryptedCounters = << 2, 4 >>

\* ------------------------------------------------------------------ C30

\* C30: each decrypted running sum is the sum of the values last submitted
\* by the accounts with exists = true, reduced modulo the number of values
\* of the encrypted integer, before every step and again after it, where a
\* successful submitPosition has taken the sender's old value out of the
\* true sum and put its new one in; and when an account resubmits while the
\* true sum fits the encrypted integer, the running sum it subtracts from is
\* at least the value subtracted.
C30_WrappingSums ==
    [][ /\ Holders = DOMAIN submitted
        /\ \A k \in 1 .. 3 :
               /\ DecryptedSums[k] = SumOver(Holders, k) % UintMod
               /\ Called("submitPosition") =>
                      LET c   == last'.sender
                          old == IF c \in Holders THEN submitted[c][k] ELSE 0
                      IN  /\ Holders' = Holders \cup {c}
                          /\ submitted'[c] = last'.arg
                          /\ \A a \in Holders \ {c} :
                                 submitted'[a] = submitted[a]
                          /\ DecryptedSums'[k] =
                                 (SumOver(Holders, k) - old + last'.arg[k])
                                     % UintMod
                          /\ ( /\ last'.pre.exists
                               /\ SumOver(Holders, k) < UintMod )
                                 => last'.pre.sums[k] >= last'.pre.stored[k]
               /\ ~Called("submitPosition") =>
                      /\ DecryptedSums'[k] = DecryptedSums[k]
                      /\ UNCHANGED << submitted, _positions >> ]_vars

\* C30 witness: the liquidity sum had wrapped around, an account resubmitted
\* and its old liquidity, larger than the wrapped sum, was subtracted from
\* it; the true sum fits again and the running sum equals it.
C30_Witness ==
    /\ last.op = "submitPosition"
    /\ last.pre.exists
    /\ last.pre.sums[1] < last.pre.stored[1]
    /\ Cardinality(Holders) = 2
    /\ SumOver(Holders, 1) < UintMod
    /\ DecryptedSums[1] = SumOver(Holders, 1)

\* ------------------------------------------------------------------ C31

C32_SubmitterCanDecryptAggregates ==
    last.op = "submitPosition" =>
        \A k \in 1 .. 4 :
            /\ getAggregates[k] # NullHandle
            /\ last.sender \in Allowed(getAggregates[k])

\* C32 failing state: an account has just resubmitted its position and holds
\* no grant on twoTimesNumPositions, which another account's first
\* submission created after its own.
C32_Witness ==
    /\ last.op = "submitPosition"
    /\ last.pre.exists
    /\ getAggregates[4] # NullHandle
    /\ last.sender \notin Allowed(getAggregates[4])
    /\ \A k \in 1 .. 3 : last.sender \in Allowed(getAggregates[k])

\* ------------------------------------------------------------------ C33

\* C33: at most one of the hook's submitPosition, submitVolatility,
\* refreshAggregates, decryptAggregates and applyParameters is in flight at
\* any time, and a call of one of them made while busy is set returns
\* without sending a transaction, issuing a read, or changing handles or
\* clears (it starts no run and asks for no signature either).
C33_OneOperationInFlight ==
    /\ [](Cardinality(running) <= 1)
    /\ [][ (busyRef /\ invoked' # "none") =>
               /\ sent' = << >>
               /\ UNCHANGED << handles, clears, running, busyRef >> ]_vars

\* A callback was invoked while a run of another callback was in flight, and
\* it returned at once.
C33_Witness ==
    /\ busyRef
    /\ invoked = "refreshAggregates"
    /\ sent = << >>
    /\ \E o \in running : o.name = "submitPosition" /\ o.pc = "sent"

\* ------------------------------------------------------------------ C34

\* C34: every hook operation that sets busy resets it once its asynchronous
\* steps settle: busy never stays set for ever when every awaited promise
\* settles, and the step that ends a run, on whichever path, leaves busy
\* reset.
C34_BusyReleased ==
    /\ busyRef ~> ~ busyRef
    /\ [][ (running # {} /\ running' = {}) => ~ busyRef' ]_vars

\* The one run started so far, of refreshAggregates, has stored what it
\* fetched and ended, and busy is reset.
C34_Witness ==
    /\ ~ busyRef
    /\ running = {}
    /\ ncalls = 1
    /\ invoked = "none"
    /\ handles # << >>

\* ------------------------------------------------------------------ C35

C36_HandlesStoredWhenCurrent ==
    [][ /\ handles' # handles =>
               \E o \in running :
                   /\ o.name = "refreshAggregates"
                   /\ o.thisChainId = chainId
                   /\ o.thisAddress = getFHEAMMByChainId(chainId).address
                   /\ handles' \in Fetched(o.thisChainId)
        /\ \A o \in running :
               ( /\ o.name = "refreshAggregates"
                 /\ \/ o.thisChainId # chainId
                    \/ o.thisAddress # getFHEAMMByChainId(chainId).address )
               => UNCHANGED handles ]_vars

\* A read started for chain 1 is still in flight, the wallet has moved to
\* chain 2, and handles holds what an earlier read of chain 2 fetched.
C36_Witness ==
    /\ chainId = 2
    /\ handles \in RemoteHandles
    /\ \E o \in running :
           /\ o.name = "refreshAggregates"
           /\ o.pc = "reading"
           /\ o.thisChainId = HomeChain

\* ------------------------------------------------------------------ C37

\* C37 as stated: while the chain, the contract address or the signer
\* differs from the one a decryptAggregates run in flight started with, no
\* step changes clears.
C37_ClearsOnlyForCurrent ==
    [][ \A o \in running :
            ( /\ o.name = "decryptAggregates"
              /\ \/ o.thisChainId # chainId
                 \/ o.thisAddress # getFHEAMMByChainId(chainId).address
                 \/ o.thisSigner # ethersSigner )
            => UNCHANGED clears ]_vars

\* C37 failing state: userDecrypt has been asked on behalf of signer 1 and
\* is pending, and the wallet has since moved to signer 2; the next step of
\* the run stores what it resolves to.
C37_Witness ==
    /\ ethersSigner = 2
    /\ clears = << >>
    /\ \E o \in running :
           /\ o.name = "decryptAggregates"
           /\ o.pc = "decrypting"
           /\ o.thisSigner = 1
           /\ Decryptions(o) # {}

\* ------------------------------------------------------------------ C38

\* C38: userDecrypt is never asked for the zero handle nor for an empty
\* list of handles, only for handles that are loaded; and a call of
\* decryptAggregates made when no non-zero handle is loaded leaves clears
\* empty, does not set busy, starts no run and requests no signature.
C38_OnlyLoadedHandlesDecrypted ==
    /\ []( (sent # << >> /\ sent.kind = "decrypt") =>
               /\ NullHandle \notin sent.handles
               /\ sent.handles # {}
               /\ sent.handles \subseteq { handles[k] : k \in DOMAIN handles } )
    /\ [][ ( /\ invoked' = "decryptAggregates"
             /\ \A k \in DOMAIN handles : handles[k] = NullHandle )
           => /\ clears' = << >>
              /\ sent' = << >>
              /\ UNCHANGED << busyRef, running >> ]_vars

\* On a deployment without positions the four aggregate handles fetched are
\* zero, and userDecrypt has been asked for the two suggestion handles only.
C38_Witness ==
    /\ Len(handles) = 6
    /\ \A k \in 1 .. 4 : handles[k] = NullHandle
    /\ sent # << >>
    /\ sent.kind = "decrypt"
    /\ sent.handles = { handles[5], handles[6] }
    /\ \E o \in running : o.thisChainId = HomeChain /\ o.pc = "decrypting"

====
